---- MODULE Spec2Model ----
(***************************************************************************)
(* A model of ansibullbot's HistoryWrapper (src/ansibullbot/               *)
(* historywrapper.py): the pickled history cache, the constructor, the     *)
(* merge operations and the query methods.                                 *)
(*                                                                         *)
(* Python values are modelled as follows.                                  *)
(*   - a str is a tuple of one-character strings (so that `in`, strip()    *)
(*     and `+` can be computed);                                            *)
(*   - an optional str (None or a str) is a record [py, v]; label names    *)
(*     are only compared for equality and stay TLA+ strings;               *)
(*   - a created_at value is a record [tz, t]: tz = "utc" is an aware      *)
(*     datetime, "naive" a datetime without tzinfo, "nondt" a value that   *)
(*     is no datetime (a timestamp string); values of different tz classes *)
(*     cannot be ordered (Python raises TypeError);                         *)
(*   - an event dict is a record; the optional keys it holds are listed in *)
(*     its field `has`;                                                     *)
(*   - the cache dict is a record; the keys it holds are listed in `keys`. *)
(* Version numbers are in tenths (1.2 is 12).                              *)
(***************************************************************************)
EXTENDS Integers, Sequences, FiniteSets, TLC

VARIABLES
    disk,          \* the cache file history.pickle
    alive,         \* TRUE when the last construction returned an object
    labels,        \* self.labels
    last_updated,  \* self.last_updated
    history,       \* self.history
    waffled,       \* self._waffled_labels
    ret            \* outcome of the last call (return value, exception, inputs)

vars == <<disk, alive, labels, last_updated, history, waffled, ret>>

----------------------------------------------------------------------------
(* Bounds *)

MaxTime == 2
MaxEvents == 2
MaxBatch == 1
MaxHistory == 3
MaxLimit == 2

(* Program constant: SCHEMA_VERSION = 1.2, in tenths *)
SCHEMA_VERSION == 12

Times == 1..MaxTime

----------------------------------------------------------------------------
(* Python values *)

None == [py |-> "None", v |-> <<>>]
Str(s) == [py |-> "str", v |-> s]
List(l) == [py |-> "list", v |-> l]

\* bool(x) of an optional str
Truthy(x) == x.py = "str" /\ x.v # <<>>

TS(tz, t) == [tz |-> tz, t |-> t]

\* isinstance(x, datetime.datetime)
IsDatetime(ts) == ts.tz \in {"utc", "naive"}

\* datetime.replace(tzinfo=datetime.timezone.utc): same wall clock, aware
ReplaceTzUtc(ts) == [tz |-> "utc", t |-> ts.t]

\* strip_time_safely(s): parses a timestamp string into a naive datetime
strip_time_safely(s) == [tz |-> "naive", t |-> s.t]

Event(kind, actor, ts, has, body, label, id) ==
    [event |-> kind, actor |-> actor, created_at |-> ts, has |-> has,
     body |-> body, label |-> label, id |-> id]

\* a in b for two str values: substring test
RECURSIVE IsSubstring(_, _)
IsSubstring(a, b) ==
    IF Len(a) > Len(b) THEN FALSE
    ELSE IF SubSeq(b, 1, Len(a)) = a THEN TRUE
    ELSE IsSubstring(a, Tail(b))

Whitespace == {" ", "\n", "\t"}

\* str.strip(): drops leading and trailing whitespace
RECURSIVE LStrip(_)
LStrip(s) == IF s # <<>> /\ Head(s) \in Whitespace THEN LStrip(Tail(s)) ELSE s
RECURSIVE RStrip(_)
RStrip(s) ==
    IF s # <<>> /\ s[Len(s)] \in Whitespace THEN RStrip(SubSeq(s, 1, Len(s) - 1)) ELSE s
Strip(s) == RStrip(LStrip(s))

SeqsUpTo(S, n) == UNION {[1..k -> S] : k \in 0..n}

\* lists of at most n events of S, each event supplied once
DistinctSeqsUpTo(S, n) ==
    {s \in SeqsUpTo(S, n) : \A i, j \in 1..Len(s) : i # j => s[i] # s[j]}

\* len([x for x in h if x['event'] == kind])
CountKind(h, kind) == Cardinality({i \in 1..Len(h) : h[i].event = kind})

\* [x for x in h if x['event'] == 'labeled' and x['label'] == label]
LabeledWith(h, label) == {i \in 1..Len(h) : h[i].event = "labeled" /\ h[i].label = label}

----------------------------------------------------------------------------
(* sorted(self.history, key=itemgetter('created_at')) *)

\* The comparison of two keys raises TypeError when they are of different
\* classes; sorted() compares every element with one of the others, so it
\* raises exactly when the list mixes classes.
SortRaises(s) == \E i, j \in 1..Len(s) : s[i].created_at.tz # s[j].created_at.tz

\* insertion before the first element that is not smaller: not stable
RECURSIVE InsertSortedUnstable(_, _)
InsertSortedUnstable(x, s) ==
    IF s = <<>> THEN <<x>>
    ELSE IF x.created_at.t <= Head(s).created_at.t THEN <<x>> \o s
    ELSE <<Head(s)>> \o InsertSortedUnstable(x, Tail(s))

\* insertion after every element that is not greater: stable
RECURSIVE InsertSorted(_, _)
InsertSorted(x, s) ==
    IF s = <<>> THEN <<x>>
    ELSE IF x.created_at.t < Head(s).created_at.t THEN <<x>> \o s
    ELSE <<Head(s)>> \o InsertSorted(x, Tail(s))

RECURSIVE SortedByCreatedAt(_)
SortedByCreatedAt(s) ==
    IF s = <<>> THEN <<>>
    ELSE InsertSorted(s[Len(s)], SortedByCreatedAt(SubSeq(s, 1, Len(s) - 1)))

----------------------------------------------------------------------------
(* The cache file *)

CacheKeys == {"version", "updated_at", "history"}

CacheDict(keys, version, updated_at, hist) ==
    [py |-> "dict", keys |-> keys, version |-> version,
     updated_at |-> updated_at, history |-> hist]

NoCache == [py |-> "None", keys |-> {}, version |-> 0, updated_at |-> 0, history |-> <<>>]

\* pickle.dump / pickle.load: the object is written as a type tag followed by
\* its items, and rebuilt from them
Pickle(obj) == <<obj.py, obj.keys, obj.version, obj.updated_at, obj.history>>
Unpickle(blob) ==
    [py |-> blob[1], keys |-> blob[2], version |-> blob[3],
     updated_at |-> blob[4], history |-> blob[5]]

AbsentFile == [kind |-> "absent", blob |-> <<>>]
CorruptFile == [kind |-> "corrupt", blob |-> <<>>]
PickleFile(obj) == [kind |-> "pickle", blob |-> Pickle(obj)]

\* _load_cache: None when the file is missing or does not unpickle (the
\* cache directory, created when missing, is not part of the state)
LoadCache(d) ==
    IF d.kind = "absent" THEN NoCache
    ELSE IF d.kind = "corrupt" THEN NoCache
    ELSE Unpickle(d.blob)

\* validate_cache without the needs_info guard
ValidateCacheNoNeedsInfo(cache, lbls, lu) ==
    /\ cache.py = "dict"
    /\ {"history", "updated_at", "version"} \subseteq cache.keys
    /\ cache.version >= SCHEMA_VERSION
    /\ cache.updated_at >= lu
    /\ Len(cache.history) >=
         CountKind(cache.history, "commented") + Cardinality(lbls)

\* validate_cache
ValidateCache(cache, lbls, lu) ==
    IF cache.py = "None" THEN FALSE
    ELSE IF cache.py # "dict" THEN FALSE
    ELSE IF "history" \notin cache.keys THEN FALSE
    ELSE IF "updated_at" \notin cache.keys THEN FALSE
    ELSE IF "version" \notin cache.keys \/ cache.version = 0
            \/ cache.version < SCHEMA_VERSION THEN FALSE
    ELSE IF cache.updated_at < lu THEN FALSE
    ELSE IF Len(cache.history) <
              CountKind(cache.history, "commented") + Cardinality(lbls)
         THEN FALSE
    ELSE IF "needs_info" \in lbls /\ LabeledWith(cache.history, "needs_info") = {}
         THEN FALSE
    ELSE TRUE

\* _dump_cache: the check that raises AssertionError
DumpRaises(hist) == \E i \in 1..Len(hist) : ~IsDatetime(hist[i].created_at)

\* _dump_cache writing the timeline after it was sorted
DumpedFileSorted(hist, lu) ==
    PickleFile(CacheDict(CacheKeys, SCHEMA_VERSION, lu, SortedByCreatedAt(hist)))

\* _dump_cache stamping the snapshot with the latest time instead of last_updated
DumpedFileNow(hist, lu) == PickleFile(CacheDict(CacheKeys, SCHEMA_VERSION, MaxTime, hist))

\* _dump_cache: the file written
DumpedFile(hist, lu) == PickleFile(CacheDict(CacheKeys, SCHEMA_VERSION, lu, hist))

----------------------------------------------------------------------------
(* Outcome of a call *)

NoRet ==
    [op |-> "none", raised |-> "none", val |-> "-", body |-> None,
     src |-> <<>>, usecache |-> FALSE, valid |-> FALSE, rebuilt |-> FALSE,
     arg |-> None, label |-> "", limit |-> 0]

----------------------------------------------------------------------------
(* __init__ *)

Construct(events, lbls, lu, usecache) ==
    LET cache == IF usecache THEN LoadCache(disk) ELSE NoCache
        valid == usecache /\ ValidateCache(cache, lbls, lu)
        rebuilt == usecache /\ ~valid
        h0 == IF valid THEN cache.history ELSE events
        dumpFails == rebuilt /\ DumpRaises(h0)
        sortFails == ~dumpFails /\ SortRaises(h0)
        ok == ~dumpFails /\ ~sortFails
    IN  /\ labels' = lbls
        /\ last_updated' = lu
        /\ waffled' = [built |-> FALSE, counts |-> <<>>]
        /\ disk' = IF rebuilt /\ ~dumpFails THEN DumpedFile(h0, lu) ELSE disk
        /\ alive' = ok
        /\ history' = IF ok THEN SortedByCreatedAt(h0) ELSE <<>>
        /\ ret' = [NoRet EXCEPT !.op = "init",
                                !.raised = IF dumpFails THEN "AssertionError"
                                           ELSE IF sortFails THEN "TypeError"
                                           ELSE "none",
                                !.src = IF dumpFails THEN <<>> ELSE h0,
                                !.usecache = usecache,
                                !.valid = valid,
                                !.rebuilt = rebuilt]

----------------------------------------------------------------------------
(* merge_commits *)

\* A raw commit: sha, committer (a user with a login, an object without a
\* login, or one whose lookup raises), commit.committer.date, message
RawCommit(sha, kind, login, repr, date) ==
    [sha |-> sha, committer |-> [kind |-> kind, login |-> login, repr |-> repr],
     date |-> date]

\* getattr(xc.committer, 'login', str(xc.committer)), str(xc.committer) when
\* the lookup raises
CommitActor(xc) ==
    IF xc.committer.kind = "user" THEN xc.committer.login ELSE xc.committer.repr

NormalizeCommit(xc) ==
    Event("committed", CommitActor(xc), ReplaceTzUtc(xc.date),
          {"id", "message"}, None, "", xc.sha)

RECURSIVE NormalizeCommits(_)
NormalizeCommits(commits) ==
    IF commits = <<>> THEN <<>>
    ELSE <<NormalizeCommit(Head(commits))>> \o NormalizeCommits(Tail(commits))

\* The events are appended in place, then the list is sorted; when sorted()
\* raises, the appended, unsorted list stays.
MergeCommits(commits) ==
    LET new == NormalizeCommits(commits)
        h1 == history \o new
    IN  /\ alive
        /\ Len(h1) <= MaxHistory
        /\ history' = IF SortRaises(h1) THEN h1 ELSE SortedByCreatedAt(h1)
        /\ ret' = [NoRet EXCEPT !.op = "merge_commits",
                                !.raised = IF SortRaises(h1) THEN "TypeError" ELSE "none",
                                !.src = new]
        /\ UNCHANGED <<disk, alive, labels, last_updated, waffled>>

----------------------------------------------------------------------------
(* merge_reviews *)

\* A raw review: state, user (login, or ghost = TRUE for a deleted user), id,
\* submitted_at (a timestamp string), commit_id (may be absent), body (None
\* when absent)
RawReview(state, ghost, login, id, submitted_at, body) ==
    [state |-> state, ghost |-> ghost, login |-> login, id |-> id,
     submitted_at |-> submitted_at, body |-> body]

ReviewKind(state) ==
    IF state = "COMMENTED" THEN "review_comment"
    ELSE IF state = "CHANGES_REQUESTED" THEN "review_changes_requested"
    ELSE IF state = "APPROVED" THEN "review_approved"
    ELSE IF state = "DISMISSED" THEN "review_dismissed"
    ELSE "skip"

\* the events one review contributes: none when it is skipped
NormalizeReview(review) ==
    IF review.ghost THEN <<>>
    ELSE IF ReviewKind(review.state) = "skip" THEN <<>>
    ELSE <<Event(ReviewKind(review.state), review.login,
                 ReplaceTzUtc(strip_time_safely(review.submitted_at)),
                 {"id", "commit_id", "body"}, review.body, "", review.id)>>

RECURSIVE NormalizeReviews(_)
NormalizeReviews(reviews) ==
    IF reviews = <<>> THEN <<>>
    ELSE NormalizeReview(Head(reviews)) \o NormalizeReviews(Tail(reviews))

MergeReviews(reviews) ==
    LET new == NormalizeReviews(reviews)
        h1 == history \o new
    IN  /\ alive
        /\ Len(history) + Len(reviews) <= MaxHistory
        /\ history' = IF SortRaises(h1) THEN h1 ELSE SortedByCreatedAt(h1)
        /\ ret' = [NoRet EXCEPT !.op = "merge_reviews",
                                !.raised = IF SortRaises(h1) THEN "TypeError" ELSE "none",
                                !.src = new]
        /\ UNCHANGED <<disk, alive, labels, last_updated, waffled>>

----------------------------------------------------------------------------
(* label_is_waffling *)

HasLabel(x) == "label" \in x.has

\* the memo built from the events that hold a 'label' key, counting only adds
WaffledLabelsAddsOnly(h) ==
    [hl \in {h[i].label : i \in {j \in 1..Len(h) : HasLabel(h[j])}} |->
        Cardinality({i \in 1..Len(h) :
                        HasLabel(h[i]) /\ h[i].label = hl /\ h[i].event = "labeled"})]

\* the memo built from the events that hold a 'label' key
WaffledLabels(h) ==
    [hl \in {h[i].label : i \in {j \in 1..Len(h) : HasLabel(h[j])}} |->
        Cardinality({i \in 1..Len(h) : HasLabel(h[i]) /\ h[i].label = hl})]

\* dict.get(label, 0)
GetCount(counts, label) == IF label \in DOMAIN counts THEN counts[label] ELSE 0

LabelIsWaffling(label, limit) ==
    LET counts == IF waffled.built THEN waffled.counts ELSE WaffledLabels(history)
    IN  /\ alive
        /\ waffled' = [built |-> TRUE, counts |-> counts]
        /\ ret' = [NoRet EXCEPT !.op = "label_is_waffling",
                                !.label = label,
                                !.limit = limit,
                                !.val = IF GetCount(counts, label) >= limit
                                        THEN "True" ELSE "False"]
        /\ UNCHANGED <<disk, alive, labels, last_updated, history>>

----------------------------------------------------------------------------
(* _find_events_by_actor and the presence tests *)

\* event['actor'] in actor: a substring test when actor is a str, membership
\* when it is a list
ActorIn(name, actor) ==
    IF actor.py = "str" THEN IsSubstring(name, actor.v)
    ELSE \E i \in 1..Len(actor.v) : actor.v[i] = name

\* the forward scan; a str or a list is a Sequence and is used as given
\* (eventname "" stands for a falsy eventname)
RECURSIVE FindEventsByActor(_, _, _, _, _)
FindEventsByActor(h, eventname, actor, maxcount, matching) ==
    IF h = <<>> THEN matching
    ELSE IF Head(h).event = eventname \/ eventname = ""
         THEN LET m == IF actor.py = "None" \/ ActorIn(Head(h).actor, actor)
                       THEN Append(matching, Head(h)) ELSE matching
              IN  IF Len(m) = maxcount THEN m
                  ELSE FindEventsByActor(Tail(h), eventname, actor, maxcount, m)
         ELSE FindEventsByActor(Tail(h), eventname, actor, maxcount, matching)

WasAssigned(username) ==
    /\ alive
    /\ ret' = [NoRet EXCEPT !.op = "was_assigned",
                            !.arg = username,
                            !.val = IF Len(FindEventsByActor(history, "assigned",
                                                             username, 1, <<>>)) > 0
                                    THEN "True" ELSE "False"]
    /\ UNCHANGED <<disk, alive, labels, last_updated, history, waffled>>

WasSubscribed(username) ==
    /\ alive
    /\ ret' = [NoRet EXCEPT !.op = "was_subscribed",
                            !.arg = username,
                            !.val = IF Len(FindEventsByActor(history, "subscribed",
                                                             username, 1, <<>>)) > 0
                                    THEN "True" ELSE "False"]
    /\ UNCHANGED <<disk, alive, labels, last_updated, history, waffled>>

----------------------------------------------------------------------------
(* last_comment *)

\* the reverse scan from position i, with the value held in last_comment
RECURSIVE LastCommentScan(_, _, _, _)
LastCommentScan(h, i, username, last) ==
    IF i = 0 THEN last
    ELSE LET event == h[i]
             hit == IF username.py = "list"
                    THEN \E k \in 1..Len(username.v) : username.v[k] = event.actor
                    ELSE event.actor = username.v
             last1 == IF event.event = "commented" /\ hit THEN event.body ELSE last
         IN  IF Truthy(last1) THEN last1
             ELSE LastCommentScan(h, i - 1, username, last1)

LastComment(username) ==
    /\ alive
    /\ ret' = [NoRet EXCEPT !.op = "last_comment",
                            !.arg = username,
                            !.body = LastCommentScan(history, Len(history), username, None)]
    /\ UNCHANGED <<disk, alive, labels, last_updated, history, waffled>>

----------------------------------------------------------------------------
(* command_status *)

Negated(command) == <<"!">> \o command

\* the forward scan: the status at the end, or the exception raised by
\* None.strip()
RECURSIVE CommandStatusScan(_, _, _)
CommandStatusScan(h, command, status) ==
    IF h = <<>> THEN status
    ELSE IF "body" \notin Head(h).has THEN CommandStatusScan(Tail(h), command, status)
    ELSE IF Head(h).body.py = "None" THEN "AttributeError"
    ELSE IF Strip(Head(h).body.v) = command
         THEN CommandStatusScan(Tail(h), command, "True")
    ELSE IF Strip(Head(h).body.v) = Negated(command)
         THEN CommandStatusScan(Tail(h), command, "False")
    ELSE CommandStatusScan(Tail(h), command, status)

CommandStatus(command) ==
    LET r == CommandStatusScan(history, command, "None")
    IN  /\ alive
        /\ ret' = [NoRet EXCEPT !.op = "command_status",
                                !.arg = Str(command),
                                !.raised = IF r = "AttributeError" THEN r ELSE "none",
                                !.val = IF r = "AttributeError" THEN "-" ELSE r]
        /\ UNCHANGED <<disk, alive, labels, last_updated, history, waffled>>

----------------------------------------------------------------------------
(* Inputs of the cache specification *)

Alice == <<"a">>

CacheEvents ==
    {Event("commented", Alice, TS("utc", 2), {"body"}, Str(<<"x">>), "", 0),
     Event("labeled", Alice, TS("utc", 1), {"label"}, None, "needs_info", 0),
     Event("assigned", Alice, TS("naive", 1), {}, None, "", 0),
     Event("subscribed", Alice, TS("nondt", 1), {}, None, "", 0)}

CacheLabels == SUBSET {"needs_info", "bug"}

\* Files an earlier run or an earlier release of the bot may have left
LegacyCaches ==
    {CacheDict(k, v, u, h) :
        k \in {CacheKeys, CacheKeys \ {"version"}, CacheKeys \ {"history"},
               CacheKeys \ {"updated_at"}},
        v \in {0, SCHEMA_VERSION - 1, SCHEMA_VERSION, SCHEMA_VERSION + 1},
        u \in Times,
        h \in {<<>>,
               <<Event("labeled", Alice, TS("utc", 1), {"label"}, None, "needs_info", 0)>>}}
    \cup {[py |-> "list", keys |-> {}, version |-> 0, updated_at |-> 0, history |-> <<>>]}

InitialDisks == {AbsentFile, CorruptFile} \cup {PickleFile(c) : c \in LegacyCaches}

InitCache ==
    /\ disk \in InitialDisks
    /\ alive = FALSE
    /\ labels = {}
    /\ last_updated = 0
    /\ history = <<>>
    /\ waffled = [built |-> FALSE, counts |-> <<>>]
    /\ ret = NoRet

ConstructCached ==
    \E ev \in DistinctSeqsUpTo(CacheEvents, MaxEvents), l \in CacheLabels, u \in Times :
        Construct(ev, l, u, TRUE)

NextCache == ConstructCached

SpecCache == InitCache /\ [][NextCache]_vars

----------------------------------------------------------------------------
(* Claims about the cache *)

IsCommented(x) == x.event = "commented"
IsNeedsInfoLabeled(x) == x.event = "labeled" /\ x.label = "needs_info"

Cond1(c) == c.py = "dict" /\ "history" \in c.keys /\ "updated_at" \in c.keys
Cond2(c) == "version" \in c.keys /\ c.version # 0 /\ c.version >= SCHEMA_VERSION
Cond3(c, lu) == c.updated_at >= lu
Cond4(h, lbls) == Len(h) >= Len(SelectSeq(h, IsCommented)) + Cardinality(lbls)
Cond5(h, lbls) ==
    "needs_info" \in lbls => \E i \in 1..Len(h) : IsNeedsInfoLabeled(h[i])

Snapshot == LoadCache(disk)

\* C2: validate_cache returns True exactly when the cache is a dict with
\* 'history' and 'updated_at', its version is present, non-zero and at least
\* SCHEMA_VERSION, its updated_at is at least last_updated, its history is at
\* least as long as its comments plus the labels, and a needs_info label has
\* a labeled needs_info event in the history.
C2_ValidateIffFiveConditions ==
    [][(ret'.op = "init" /\ ret'.usecache) =>
          (ret'.valid <=>
              LET c == LoadCache(disk) IN
                  /\ Cond1(c)
                  /\ Cond2(c)
                  /\ Cond3(c, last_updated')
                  /\ Cond4(c.history, labels')
                  /\ Cond5(c.history, labels'))]_vars

C2_Witness ==
    /\ ret.op = "init"
    /\ ret.valid
    /\ "needs_info" \in labels
    /\ Len(Snapshot.history) >= 2

\* C3 as stated: after a construction that dumped the supplied events E
\* (all with aware timestamps), the loaded snapshot passes validate_cache for
\* the same labels and last_updated and its history is E.
C3_RoundTripAlwaysValid ==
    (/\ ret.op = "init"
     /\ ret.rebuilt
     /\ ret.raised # "AssertionError"
     /\ \A i \in 1..Len(ret.src) : ret.src[i].created_at.tz = "utc")
    => /\ ValidateCache(Snapshot, labels, last_updated)
       /\ Snapshot.history = ret.src

\* C3 amended: after a construction that dumped the supplied events E, the
\* loaded snapshot is a dict with the three keys, version SCHEMA_VERSION,
\* updated_at last_updated and history E in the same order; it passes
\* validate_cache exactly when E is at least as long as its comments plus
\* the labels and a needs_info label has a labeled needs_info event in E.
C3_RoundTrip ==
    (ret.op = "init" /\ ret.rebuilt /\ ret.raised # "AssertionError")
    => /\ Snapshot.py = "dict"
       /\ Snapshot.keys = CacheKeys
       /\ Snapshot.version = SCHEMA_VERSION
       /\ Snapshot.updated_at = last_updated
       /\ Snapshot.history = ret.src
       /\ ValidateCache(Snapshot, labels, last_updated)
            <=> (Cond4(ret.src, labels) /\ Cond5(ret.src, labels))

C3_Witness ==
    /\ ret.op = "init"
    /\ ret.rebuilt
    /\ ret.raised = "none"
    /\ Len(ret.src) = 2
    /\ ret.src[1] # ret.src[2]
    /\ labels # {}
    /\ ValidateCache(Snapshot, labels, last_updated)

\* C4: the persisted snapshot never holds an event whose created_at is not
\* an aware timestamp.
C4_OnlyAwarePersisted ==
    disk.kind = "pickle" =>
        \A i \in 1..Len(Snapshot.history) : Snapshot.history[i].created_at.tz = "utc"

\* C5: a construction with cache enabled does not fail on the cache's
\* content: with a cache that passes validate_cache the timeline is the
\* cached history, sorted; otherwise the timeline is the supplied events,
\* sorted, and the snapshot holds them with version SCHEMA_VERSION and
\* updated_at last_updated.
C5_CacheNeverFailsConstruction ==
    /\ (ret.op = "init" /\ ret.valid) =>
            /\ ret.raised = "none"
            /\ alive
            /\ history = SortedByCreatedAt(Snapshot.history)
    /\ (ret.op = "init" /\ ret.rebuilt /\ ret.raised = "none") =>
            /\ alive
            /\ history = SortedByCreatedAt(ret.src)
            /\ Snapshot = CacheDict(CacheKeys, SCHEMA_VERSION, last_updated, ret.src)

HasUpdatedAt(d) == d.kind = "pickle" /\ Cond1(LoadCache(d))

\* a snapshot that _dump_cache wrote
WrittenByDump(d) ==
    /\ d.kind = "pickle"
    /\ LoadCache(d).py = "dict"
    /\ LoadCache(d).keys = CacheKeys
    /\ LoadCache(d).version = SCHEMA_VERSION

\* C10 as stated: over a sequence of constructions with cache enabled the
\* updated_at of the persisted snapshot never decreases (stated for the
\* snapshots that _dump_cache wrote).
C10_UpdatedAtNeverDecreases ==
    [][(WrittenByDump(disk) /\ WrittenByDump(disk')) =>
          LoadCache(disk').updated_at >= LoadCache(disk).updated_at]_vars

\* C10 amended: a construction either leaves the snapshot unchanged or, when
\* the old one fails validate_cache, replaces it with one whose updated_at
\* is that construction's last_updated: greater than the old updated_at when
\* the old snapshot passes the version, completeness and needs_info checks
\* (it was rejected as stale), possibly lower otherwise.
C10_UpdatedAtIsLastUpdated ==
    [][disk' # disk =>
          /\ HasUpdatedAt(disk')
          /\ LoadCache(disk').updated_at = last_updated'
          /\ ~ValidateCache(LoadCache(disk), labels', last_updated')
          /\ (HasUpdatedAt(disk) /\ Cond2(LoadCache(disk))
                /\ Cond4(LoadCache(disk).history, labels')
                /\ Cond5(LoadCache(disk).history, labels'))
               => LoadCache(disk').updated_at > LoadCache(disk).updated_at]_vars

C10_Witness ==
    /\ ret.op = "init"
    /\ ret.rebuilt
    /\ ret.raised = "none"
    /\ Snapshot.updated_at = 1
    /\ Cardinality(labels) = 2
    /\ history = <<>>

----------------------------------------------------------------------------
(* Inputs of the merge specification: events shaped as the data model says *)

Bot == <<"b">>

MergeEvents ==
    {Event("labeled", Alice, TS("utc", 2), {"label"}, None, "bug", 0),
     Event("unlabeled", Bot, TS("utc", 1), {"label"}, None, "bug", 0)}

MergeCommitPool ==
    {RawCommit(1, "user", Alice, Alice, TS("naive", 1)),
     RawCommit(2, "incomplete", <<>>, Bot, TS("utc", 2))}

MergeReviewPool ==
    {RawReview("APPROVED", FALSE, Alice, 3, TS("nondt", 1), None),
     RawReview("PENDING", FALSE, Alice, 4, TS("nondt", 2), None),
     RawReview("COMMENTED", TRUE, <<>>, 5, TS("nondt", 2), None),
     RawReview("UNKNOWN", FALSE, Alice, 6, TS("nondt", 2), None)}

WaffleLabels == {"bug", "other"}

InitMerge ==
    /\ disk = AbsentFile
    /\ alive = FALSE
    /\ labels = {}
    /\ last_updated = 0
    /\ history = <<>>
    /\ waffled = [built |-> FALSE, counts |-> <<>>]
    /\ ret = NoRet

ConstructForMerge ==
    \E ev \in DistinctSeqsUpTo(MergeEvents, MaxEvents), uc \in BOOLEAN :
        Construct(ev, {}, 1, uc)

CallMergeCommits ==
    \E commits \in DistinctSeqsUpTo(MergeCommitPool, MaxBatch) : MergeCommits(commits)

CallMergeReviews ==
    \E reviews \in DistinctSeqsUpTo(MergeReviewPool, MaxBatch) : MergeReviews(reviews)

CallLabelIsWaffling ==
    \E label \in WaffleLabels, limit \in 1..MaxLimit : LabelIsWaffling(label, limit)

NextMerge ==
    \/ ConstructForMerge
    \/ CallMergeCommits
    \/ CallMergeReviews
    \/ CallLabelIsWaffling

SpecMerge == InitMerge /\ [][NextMerge]_vars

----------------------------------------------------------------------------
(* Claims about the timeline *)

NonDecreasing(h) ==
    \A i, j \in 1..Len(h) : i < j => h[i].created_at.t <= h[j].created_at.t

\* the events of h created at time t, in the order of h
AtTime(h, t) == SelectSeq(h, LAMBDA x : x.created_at.t = t)

TimesOf(h) == {h[i].created_at.t : i \in 1..Len(h)}

\* C1: after construction and after every merge_commits and merge_reviews
\* call the timeline is non-decreasing by created_at; events of equal
\* created_at keep the order of the list that was sorted: the order of the
\* supplied or cached events after construction, and the events already
\* present before the newly merged ones (each group in its own order) after
\* a merge.
C1_SortedAndStable ==
    [][alive' =>
          /\ NonDecreasing(history')
          /\ ret'.op = "init" =>
                \A t \in TimesOf(ret'.src) \cup TimesOf(history') :
                    AtTime(history', t) = AtTime(ret'.src, t)
          /\ ret'.op \in {"merge_commits", "merge_reviews"} =>
                \A t \in TimesOf(history) \cup TimesOf(ret'.src) \cup TimesOf(history') :
                    AtTime(history', t) = AtTime(history, t) \o AtTime(ret'.src, t)]_vars

C1_Witness ==
    /\ alive
    /\ ret.op = "merge_commits"
    /\ Len(ret.src) > 0
    /\ Len(history) = MaxHistory
    /\ \E i \in 1..Len(history) - 1 :
          /\ history[i].created_at = history[i + 1].created_at
          /\ history[i].event # "committed"
          /\ history[i + 1].event = "committed"
    /\ \E i \in 1..Len(history) - 1 : history[i].created_at.t < history[i + 1].created_at.t
    /\ disk.kind = "pickle"

LabelChanges(h, label) ==
    Cardinality({i \in 1..Len(h) :
                    h[i].event \in {"labeled", "unlabeled"} /\ h[i].label = label})

\* C9: label_is_waffling(label, limit) returns True exactly when the current
\* timeline holds at least limit labeled or unlabeled events for the label,
\* and once the memo is built its counts are those of the current timeline,
\* also after later merges.
C9_WafflingMatchesTimeline ==
    /\ ret.op = "label_is_waffling" =>
          (ret.val = "True" <=> LabelChanges(history, ret.label) >= ret.limit)
    /\ ret.op = "label_is_waffling" => ret.val \in {"True", "False"}
    /\ (alive /\ waffled.built) =>
          \A label \in WaffleLabels :
              GetCount(waffled.counts, label) = LabelChanges(history, label)

C9_Witness ==
    /\ alive
    /\ waffled.built
    /\ ret.op \in {"merge_commits", "merge_reviews"}
    /\ Len(ret.src) > 0
    /\ LabelChanges(history, "bug") = MaxLimit
    /\ Len(history) > MaxLimit

----------------------------------------------------------------------------
(* Inputs of the query specification *)

Bob == <<"b", "o", "b">>
Bobby == <<"b", "o", "b", "b", "y">>
Shipit == <<"s", "h", "i", "p", "i", "t">>

QueryEvents ==
    {Event("assigned", Bob, TS("utc", 1), {}, None, "", 0),
     Event("subscribed", Bob, TS("utc", 1), {}, None, "", 0),
     Event("commented", Bobby, TS("utc", 1), {"body"}, Str(Shipit), "", 0),
     Event("commented", Bobby, TS("utc", 2), {"body"}, Str(<<>>), "", 0),
     Event("commented", Bob, TS("utc", 2), {"body"}, Str(<<" ">> \o Negated(Shipit) \o <<"\n">>), "", 0)}

QueryReviewPool ==
    {RawReview("APPROVED", FALSE, Bob, 7, TS("nondt", 2), None),
     RawReview("COMMENTED", FALSE, Bobby, 8, TS("nondt", 1), Str(Shipit))}

QueryUsers == {Str(Bob), Str(Bobby), List(<<Bob, Bobby>>)}

InitQuery ==
    /\ disk = AbsentFile
    /\ alive = FALSE
    /\ labels = {}
    /\ last_updated = 0
    /\ history = <<>>
    /\ waffled = [built |-> FALSE, counts |-> <<>>]
    /\ ret = NoRet

ConstructForQuery ==
    \E ev \in DistinctSeqsUpTo(QueryEvents, MaxEvents) : Construct(ev, {}, 1, FALSE)

MergeReviewsForQuery ==
    \E reviews \in DistinctSeqsUpTo(QueryReviewPool, MaxBatch) : MergeReviews(reviews)

CallWasAssigned == \E u \in QueryUsers : WasAssigned(u)

CallWasSubscribed == \E u \in QueryUsers : WasSubscribed(u)

CallLastComment == \E u \in QueryUsers : LastComment(u)

CallCommandStatus == CommandStatus(Shipit)

NextQuery ==
    \/ ConstructForQuery
    \/ MergeReviewsForQuery
    \/ CallWasAssigned
    \/ CallWasSubscribed
    \/ CallLastComment
    \/ CallCommandStatus

SpecQuery == InitQuery /\ [][NextQuery]_vars

----------------------------------------------------------------------------
(* Claims about the queries *)

\* positions of the events whose body, stripped as the code strips it, is the
\* command or its negation
CommandPositions(h, command) ==
    {i \in 1..Len(h) :
        /\ "body" \in h[i].has
        /\ h[i].body.py = "str"
        /\ Strip(h[i].body.v) \in {command, Negated(command)}}

Max(S) == CHOOSE x \in S : \A y \in S : y <= x

\* C6: command_status(command) never raises and returns True when the latest
\* event whose body is command or '!' + command has body command, False when
\* it has body '!' + command, and None when no event has either body (bodies
\* are compared after strip(), as the code compares them).
C6_CommandStatusLastWins ==
    ret.op = "command_status" =>
        /\ ret.raised = "none"
        /\ LET P == CommandPositions(history, ret.arg.v)
           IN  ret.val = IF P = {} THEN "None"
                         ELSE IF Strip(history[Max(P)].body.v) = ret.arg.v THEN "True"
                         ELSE "False"

PresenceKind(op) == IF op = "was_assigned" THEN "assigned" ELSE "subscribed"

\* C7: was_assigned(user) and was_subscribed(user) with a single identity
\* string return True exactly when the timeline holds an assigned (resp.
\* subscribed) event whose actor equals user.
C7_PresenceByEqualActor ==
    (ret.op \in {"was_assigned", "was_subscribed"} /\ ret.arg.py = "str") =>
        (ret.val = "True" <=>
            \E i \in 1..Len(history) :
                /\ history[i].event = PresenceKind(ret.op)
                /\ history[i].actor = ret.arg.v)

CommentsBy(h, username) ==
    {i \in 1..Len(h) :
        /\ h[i].event = "commented"
        /\ IF username.py = "list"
           THEN \E k \in 1..Len(username.v) : username.v[k] = h[i].actor
           ELSE h[i].actor = username.v}

\* C8: last_comment(user_or_users) returns the body of the last commented
\* event by the given actor(s), whatever the body is, and None only when
\* there is no such comment.
C8_LastCommentIsLast ==
    ret.op = "last_comment" =>
        LET P == CommentsBy(history, ret.arg)
        IN  ret.body = IF P = {} THEN None ELSE history[Max(P)].body

====
